---- MODULE Spec2Model ----
(***************************************************************************)
(* Model of mock_app.py: a driver loop (main_loop) that repeatedly calls   *)
(* frontend_request -> backend_process -> database_operation.  Each tier   *)
(* wraps its body in an OpenTelemetry span (start_as_current_span), rolls  *)
(* an independent fault, sets its span status, emits a log record and      *)
(* returns a success value.                                                *)
(*                                                                         *)
(* spans and logs record the telemetry emitted during the driver           *)
(* iteration in progress (they are what the sink receives); stack is the   *)
(* ambient current-span context of the tracing SDK.                        *)
(***************************************************************************)
EXTENDS Integers, Sequences, FiniteSets, TLC

VARIABLES
    pc,         \* position of the single thread of control
    stack,      \* current-span context: indices into spans, innermost last
    spans,      \* span records started in this iteration, in start order
    logs,       \* log records emitted in this iteration, in emission order
    locals,     \* local variables of the three tier functions
    ret,        \* value carried by the return statement being executed
    rolls,      \* outcome of the three random.random() fault rolls
    calls,      \* number of invocations of each tier function in this iteration
    exc,        \* exception in flight / raised in this iteration
    console,    \* lines printed on standard output
    uncaught,   \* TRUE once an exception has left the module uncaught
    recordsBaseException  \* whether the tracing API's span context manager
                          \* also records non-Exception BaseExceptions

vars == <<pc, stack, spans, logs, locals, ret, rolls, calls, exc, console,
          uncaught, recordsBaseException>>

\* Trace and span identifiers are random non-zero integers; the model draws
\* them from 1..MaxId.
MaxId == 2

Ids == 1..MaxId

\* ---------------------------------------------------------------------
\* format(trace_id, '032x')
\* ---------------------------------------------------------------------
HexDigit(d) ==
    <<"0","1","2","3","4","5","6","7","8","9","a","b","c","d","e","f">>[d + 1]

RECURSIVE Hex(_)
Hex(n) == IF n < 16 THEN HexDigit(n) ELSE Hex(n \div 16) \o HexDigit(n % 16)

RECURSIVE ZeroPad(_, _)
ZeroPad(s, w) == IF Len(s) >= w THEN s ELSE ZeroPad("0" \o s, w)

Format032x(n) == ZeroPad(Hex(n), 32)

\* ---------------------------------------------------------------------
\* Span statuses, spans, the current-span context
\* ---------------------------------------------------------------------
Status(code, description) ==
    [code |-> code, description |-> IF code = "ERROR" THEN description ELSE ""]

Unset == Status("UNSET", "")

\* The invalid span context: what a span started with no current span has
\* as parent, and what get_current_span() yields outside every span.
InvalidContext == [trace_id |-> 0, span_id |-> 0]

Context(s) == [trace_id |-> s.trace_id, span_id |-> s.span_id]

CurrentContext ==
    IF stack = <<>> THEN InvalidContext ELSE Context(spans[stack[Len(stack)]])

\* get_trace_id(): the branch returning "unknown" is taken only when
\* get_current_span() is falsy.
GetTraceId == Format032x(CurrentContext.trace_id)

\* (variant: every span starts a trace of its own, under the current span)
StartSpan_NewTrace(service, name, kind, tid, sid) ==
    [service  |-> service,
     name     |-> name,
     kind     |-> kind,
     trace_id |-> tid,
     span_id  |-> sid,
     parent   |-> CurrentContext,
     status   |-> Unset,
     ended    |-> FALSE]

\* (variant: the current span is not picked up as parent)
StartSpan_NoParent(service, name, kind, tid, sid) ==
    [service  |-> service,
     name     |-> name,
     kind     |-> kind,
     trace_id |-> IF stack = <<>> THEN tid ELSE CurrentContext.trace_id,
     span_id  |-> sid,
     parent   |-> InvalidContext,
     status   |-> Unset,
     ended    |-> FALSE]

\* tracer.start_as_current_span(name, kind): a child of the current span
\* (same trace id), or a root with a fresh trace id; pushed on the context.
StartSpan(service, name, kind, tid, sid) ==
    [service  |-> service,
     name     |-> name,
     kind     |-> kind,
     trace_id |-> IF stack = <<>> THEN tid ELSE CurrentContext.trace_id,
     span_id  |-> sid,
     parent   |-> CurrentContext,
     status   |-> Unset,
     ended    |-> FALSE]

\* Span.set_status: ignored on an ended span and on a span whose status
\* is already OK.
WithStatus(s, st) ==
    IF s.ended \/ s.status.code = "OK" THEN s ELSE [s EXCEPT !.status = st]

SetStatus(i, st) == [spans EXCEPT ![i] = WithStatus(spans[i], st)]

LogRecord(service, level, message, tid) ==
    [service |-> service, level |-> level, message |-> message, trace_id |-> tid]

Emit(service, level, message, tid) ==
    Append(logs, LogRecord(service, level, message, tid))

Pop(s) == SubSeq(s, 1, Len(s) - 1)

\* not x, for the values a tier function's result can take
Not(v) == v \in {"False", "None"}

NoLocals ==
    [parent_span |-> 0, trace_id |-> "", backend_success |-> "unbound",
     backend_span |-> 0, db_success |-> "unbound", db_span |-> 0]

NoRolls == [auth |-> "unrolled", cache |-> "unrolled", db |-> "unrolled"]

NoCalls == [frontend |-> 0, backend |-> 0, database |-> 0]

RequestPcs ==
    {"fe_span", "fe_recv", "fe_auth", "fe_check", "fe_exit",
     "be_span", "be_cache", "be_sleep", "be_check", "be_exit",
     "db_span", "db_sleep", "db_roll", "db_exit"}

Init ==
    /\ pc = "start"
    /\ stack = <<>>
    /\ spans = <<>>
    /\ logs = <<>>
    /\ locals = NoLocals
    /\ ret = "None"
    /\ rolls = NoRolls
    /\ calls = NoCalls
    /\ exc = "none"
    /\ console = <<>>
    /\ uncaught = FALSE
    /\ recordsBaseException \in BOOLEAN

\* ---------------------------------------------------------------------
\* __main__ and main_loop
\* ---------------------------------------------------------------------
Startup ==
    /\ pc = "start"
    /\ console' = console \o
          <<"Starting mock application with distributed tracing...",
            "Sending logs to Loki at http://127.0.0.1:3100",
            "Sending traces to Tempo at http://127.0.0.1:4318">>
    /\ pc' = "m_try"
    /\ UNCHANGED <<stack, spans, logs, locals, ret, rolls, calls, exc,
                   uncaught, recordsBaseException>>

\* try: frontend_request() -- a new iteration; the records of the previous
\* iteration have been handed to the sink.
MainCall ==
    /\ pc = "m_try"
    /\ spans' = <<>>
    /\ logs' = <<>>
    /\ locals' = NoLocals
    /\ ret' = "None"
    /\ rolls' = NoRolls
    /\ calls' = [NoCalls EXCEPT !.frontend = 1]
    /\ exc' = "none"
    /\ pc' = "fe_span"
    /\ UNCHANGED <<stack, console, uncaught, recordsBaseException>>

\* ---------------------------------------------------------------------
\* frontend_request
\* ---------------------------------------------------------------------
\* with frontend_tracer.start_as_current_span("/api/users", kind=SERVER)
FeStartSpan ==
    /\ pc = "fe_span"
    /\ \E tid \in Ids, sid \in Ids :
          spans' = Append(spans, StartSpan("frontend", "/api/users", "SERVER", tid, sid))
    /\ stack' = Append(stack, Len(spans) + 1)
    /\ locals' = [locals EXCEPT !.parent_span = Len(spans) + 1]
    /\ pc' = "fe_recv"
    /\ UNCHANGED <<logs, ret, rolls, calls, exc, console, uncaught,
                   recordsBaseException>>

\* trace_id = get_trace_id(); loggers["frontend"].info("Received request ...")
FeReceived ==
    /\ pc = "fe_recv"
    /\ locals' = [locals EXCEPT !.trace_id = GetTraceId]
    /\ logs' = Emit("frontend", "INFO", "Received request for /api/users", GetTraceId)
    /\ pc' = "fe_auth"
    /\ UNCHANGED <<stack, spans, ret, rolls, calls, exc, console, uncaught,
                   recordsBaseException>>

\* (variant: the auth failure sets the status and returns without logging)
FeAuthFail_NoLog ==
    /\ pc = "fe_auth"
    /\ rolls' = [rolls EXCEPT !.auth = "fire"]
    /\ spans' = SetStatus(locals.parent_span, Status("ERROR", "Invalid user session"))
    /\ ret' = "None"
    /\ pc' = "fe_exit"
    /\ UNCHANGED <<stack, logs, locals, calls, exc, console, uncaught,
                   recordsBaseException>>

\* (variant: the return after the auth failure is missing)
FeAuthFail_NoReturn ==
    /\ pc = "fe_auth"
    /\ rolls' = [rolls EXCEPT !.auth = "fire"]
    /\ spans' = SetStatus(locals.parent_span, Status("ERROR", "Invalid user session"))
    /\ logs' = Emit("frontend", "ERROR", "Invalid user session token", locals.trace_id)
    /\ calls' = [calls EXCEPT !.backend = @ + 1]
    /\ pc' = "be_span"
    /\ UNCHANGED <<stack, locals, ret, exc, console, uncaught,
                   recordsBaseException>>

\* random.random() < 0.03: set_status(ERROR), error log, return
FeAuthFail ==
    /\ pc = "fe_auth"
    /\ rolls' = [rolls EXCEPT !.auth = "fire"]
    /\ spans' = SetStatus(locals.parent_span, Status("ERROR", "Invalid user session"))
    /\ logs' = Emit("frontend", "ERROR", "Invalid user session token", locals.trace_id)
    /\ ret' = "None"
    /\ pc' = "fe_exit"
    /\ UNCHANGED <<stack, locals, calls, exc, console, uncaught,
                   recordsBaseException>>

\* the auth roll does not fire: backend_success = backend_process()
FeCallBackend ==
    /\ pc = "fe_auth"
    /\ rolls' = [rolls EXCEPT !.auth = "pass"]
    /\ calls' = [calls EXCEPT !.backend = @ + 1]
    /\ pc' = "be_span"
    /\ UNCHANGED <<stack, spans, logs, locals, ret, exc, console, uncaught,
                   recordsBaseException>>

\* (variant: a failed backend call is tried again)
FeBackendFail_Retry ==
    /\ pc = "fe_check"
    /\ Not(locals.backend_success)
    /\ calls' = [calls EXCEPT !.backend = @ + 1]
    /\ pc' = "be_span"
    /\ UNCHANGED <<stack, spans, logs, locals, ret, rolls, exc, console,
                   uncaught, recordsBaseException>>

\* (variant: the Backend span's reason is passed through to the root span)
FeBackendFail_RawReason ==
    /\ pc = "fe_check"
    /\ Not(locals.backend_success)
    /\ spans' = SetStatus(locals.parent_span,
                          Status("ERROR", spans[locals.backend_span].status.description))
    /\ logs' = Emit("frontend", "ERROR",
                    "Request to /api/users failed due to backend error",
                    locals.trace_id)
    /\ ret' = "None"
    /\ pc' = "fe_exit"
    /\ UNCHANGED <<stack, locals, rolls, calls, exc, console, uncaught,
                   recordsBaseException>>

\* (variant: the failure branch marks the span OK)
FeBackendFail_StatusOk ==
    /\ pc = "fe_check"
    /\ Not(locals.backend_success)
    /\ spans' = SetStatus(locals.parent_span, Status("OK", ""))
    /\ logs' = Emit("frontend", "ERROR",
                    "Request to /api/users failed due to backend error",
                    locals.trace_id)
    /\ ret' = "None"
    /\ pc' = "fe_exit"
    /\ UNCHANGED <<stack, locals, rolls, calls, exc, console, uncaught,
                   recordsBaseException>>

\* if not backend_success: set_status(ERROR, "Backend error"), error log, return
FeBackendFail ==
    /\ pc = "fe_check"
    /\ Not(locals.backend_success)
    /\ spans' = SetStatus(locals.parent_span, Status("ERROR", "Backend error"))
    /\ logs' = Emit("frontend", "ERROR",
                    "Request to /api/users failed due to backend error",
                    locals.trace_id)
    /\ ret' = "None"
    /\ pc' = "fe_exit"
    /\ UNCHANGED <<stack, locals, rolls, calls, exc, console, uncaught,
                   recordsBaseException>>

\* (variant: the success branch logs but leaves the span status alone)
FeSuccess_NoStatus ==
    /\ pc = "fe_check"
    /\ ~Not(locals.backend_success)
    /\ logs' = Emit("frontend", "INFO", "Transaction successful", locals.trace_id)
    /\ ret' = "None"
    /\ pc' = "fe_exit"
    /\ UNCHANGED <<stack, spans, locals, rolls, calls, exc, console, uncaught,
                   recordsBaseException>>

\* everything succeeded: set_status(OK), info log, fall off the end
FeSuccess ==
    /\ pc = "fe_check"
    /\ ~Not(locals.backend_success)
    /\ spans' = SetStatus(locals.parent_span, Status("OK", ""))
    /\ logs' = Emit("frontend", "INFO", "Transaction successful", locals.trace_id)
    /\ ret' = "None"
    /\ pc' = "fe_exit"
    /\ UNCHANGED <<stack, locals, rolls, calls, exc, console, uncaught,
                   recordsBaseException>>

\* Leaving a with-block normally: the span ends and the context is detached.
EndSpan(i) == [spans EXCEPT ![i].ended = TRUE]

\* (variant: the context is detached but the span is never ended)
FeExit_NoEnd ==
    /\ pc = "fe_exit"
    /\ stack' = Pop(stack)
    /\ pc' = "m_sleep"
    /\ UNCHANGED <<spans, logs, locals, ret, rolls, calls, exc, console,
                   uncaught, recordsBaseException>>

\* frontend_request returns to main_loop, which goes on to the sleep
FeExit ==
    /\ pc = "fe_exit"
    /\ spans' = EndSpan(locals.parent_span)
    /\ stack' = Pop(stack)
    /\ pc' = "m_sleep"
    /\ UNCHANGED <<logs, locals, ret, rolls, calls, exc, console, uncaught,
                   recordsBaseException>>

\* ---------------------------------------------------------------------
\* backend_process
\* ---------------------------------------------------------------------
\* with backend_tracer.start_as_current_span("backend_processing", kind=INTERNAL)
BeStartSpan ==
    /\ pc = "be_span"
    /\ \E tid \in Ids, sid \in Ids :
          spans' = Append(spans, StartSpan("backend", "backend_processing", "INTERNAL", tid, sid))
    /\ stack' = Append(stack, Len(spans) + 1)
    /\ locals' = [locals EXCEPT !.backend_span = Len(spans) + 1]
    /\ pc' = "be_cache"
    /\ UNCHANGED <<logs, ret, rolls, calls, exc, console, uncaught,
                   recordsBaseException>>

\* (variant: the return after the cache failure is missing)
BeCacheFail_NoReturn ==
    /\ pc = "be_cache"
    /\ rolls' = [rolls EXCEPT !.cache = "fire"]
    /\ spans' = SetStatus(locals.backend_span, Status("ERROR", "Cache service unavailable"))
    /\ logs' = Emit("backend", "ERROR", "Cache service unavailable", GetTraceId)
    /\ pc' = "be_sleep"
    /\ UNCHANGED <<stack, locals, ret, calls, exc, console, uncaught,
                   recordsBaseException>>

\* random.random() < 0.05: set_status(ERROR), error log, return False
BeCacheFail ==
    /\ pc = "be_cache"
    /\ rolls' = [rolls EXCEPT !.cache = "fire"]
    /\ spans' = SetStatus(locals.backend_span, Status("ERROR", "Cache service unavailable"))
    /\ logs' = Emit("backend", "ERROR", "Cache service unavailable", GetTraceId)
    /\ ret' = "False"
    /\ pc' = "be_exit"
    /\ UNCHANGED <<stack, locals, calls, exc, console, uncaught,
                   recordsBaseException>>

\* the cache roll does not fire
BeCachePass ==
    /\ pc = "be_cache"
    /\ rolls' = [rolls EXCEPT !.cache = "pass"]
    /\ pc' = "be_sleep"
    /\ UNCHANGED <<stack, spans, logs, locals, ret, calls, exc, console,
                   uncaught, recordsBaseException>>

\* (variant: the backend logs its completion before it calls the database)
BeCallDatabase_LogsFirst ==
    /\ pc = "be_sleep"
    /\ logs' = Emit("backend", "INFO", "Backend processing complete", GetTraceId)
    /\ calls' = [calls EXCEPT !.database = @ + 1]
    /\ pc' = "db_span"
    /\ UNCHANGED <<stack, spans, locals, ret, rolls, exc, console,
                   uncaught, recordsBaseException>>

\* time.sleep(random.uniform(0.1, 0.3)); db_success = database_operation()
BeCallDatabase ==
    /\ pc = "be_sleep"
    /\ calls' = [calls EXCEPT !.database = @ + 1]
    /\ pc' = "db_span"
    /\ UNCHANGED <<stack, spans, logs, locals, ret, rolls, exc, console,
                   uncaught, recordsBaseException>>

\* (variant: the downstream failure is marked on the span but True is returned)
BeDbFail_ReturnsTrue ==
    /\ pc = "be_check"
    /\ Not(locals.db_success)
    /\ spans' = SetStatus(locals.backend_span, Status("ERROR", "Downstream DB error"))
    /\ logs' = Emit("backend", "ERROR",
                    "Backend failed due to downstream DB error", GetTraceId)
    /\ ret' = "True"
    /\ pc' = "be_exit"
    /\ UNCHANGED <<stack, locals, rolls, calls, exc, console, uncaught,
                   recordsBaseException>>

\* (variant: the Database's own reason is passed through)
BeDbFail_RawReason ==
    /\ pc = "be_check"
    /\ Not(locals.db_success)
    /\ spans' = SetStatus(locals.backend_span,
                          Status("ERROR", spans[locals.db_span].status.description))
    /\ logs' = Emit("backend", "ERROR",
                    "Backend failed due to downstream DB error", GetTraceId)
    /\ ret' = "False"
    /\ pc' = "be_exit"
    /\ UNCHANGED <<stack, locals, rolls, calls, exc, console, uncaught,
                   recordsBaseException>>

\* if not db_success: set_status(ERROR, "Downstream DB error"), error log, return False
BeDbFail ==
    /\ pc = "be_check"
    /\ Not(locals.db_success)
    /\ spans' = SetStatus(locals.backend_span, Status("ERROR", "Downstream DB error"))
    /\ logs' = Emit("backend", "ERROR",
                    "Backend failed due to downstream DB error", GetTraceId)
    /\ ret' = "False"
    /\ pc' = "be_exit"
    /\ UNCHANGED <<stack, locals, rolls, calls, exc, console, uncaught,
                   recordsBaseException>>

\* (variant: the success branch returns True without logging)
BeSuccess_NoLog ==
    /\ pc = "be_check"
    /\ ~Not(locals.db_success)
    /\ ret' = "True"
    /\ pc' = "be_exit"
    /\ UNCHANGED <<stack, spans, logs, locals, rolls, calls, exc, console,
                   uncaught, recordsBaseException>>

\* info log "Backend processing complete", return True
BeSuccess ==
    /\ pc = "be_check"
    /\ ~Not(locals.db_success)
    /\ logs' = Emit("backend", "INFO", "Backend processing complete", GetTraceId)
    /\ ret' = "True"
    /\ pc' = "be_exit"
    /\ UNCHANGED <<stack, spans, locals, rolls, calls, exc, console, uncaught,
                   recordsBaseException>>

\* backend_process returns; frontend_request binds backend_success
BeExit ==
    /\ pc = "be_exit"
    /\ spans' = EndSpan(locals.backend_span)
    /\ stack' = Pop(stack)
    /\ locals' = [locals EXCEPT !.backend_success = ret]
    /\ pc' = "fe_check"
    /\ UNCHANGED <<logs, ret, rolls, calls, exc, console, uncaught,
                   recordsBaseException>>

\* ---------------------------------------------------------------------
\* database_operation
\* ---------------------------------------------------------------------
\* with database_tracer.start_as_current_span("db_query")
DbStartSpan ==
    /\ pc = "db_span"
    /\ \E tid \in Ids, sid \in Ids :
          spans' = Append(spans, StartSpan("database", "db_query", "INTERNAL", tid, sid))
    /\ stack' = Append(stack, Len(spans) + 1)
    /\ locals' = [locals EXCEPT !.db_span = Len(spans) + 1]
    /\ pc' = "db_sleep"
    /\ UNCHANGED <<logs, ret, rolls, calls, exc, console, uncaught,
                   recordsBaseException>>

\* time.sleep(random.uniform(0.05, 0.15))
DbSleep ==
    /\ pc = "db_sleep"
    /\ pc' = "db_roll"
    /\ UNCHANGED <<stack, spans, logs, locals, ret, rolls, calls, exc,
                   console, uncaught, recordsBaseException>>

\* (variant: the failure branch logs but leaves the span status alone)
DbFail_NoStatus ==
    /\ pc = "db_roll"
    /\ rolls' = [rolls EXCEPT !.db = "fire"]
    /\ logs' = Emit("database", "ERROR", "DB connection failed", GetTraceId)
    /\ ret' = "False"
    /\ pc' = "db_exit"
    /\ UNCHANGED <<stack, spans, locals, calls, exc, console, uncaught,
                   recordsBaseException>>

\* random.random() < 0.08: set_status(ERROR), error log, return False
DbFail ==
    /\ pc = "db_roll"
    /\ rolls' = [rolls EXCEPT !.db = "fire"]
    /\ spans' = SetStatus(locals.db_span, Status("ERROR", "DB connection failed"))
    /\ logs' = Emit("database", "ERROR", "DB connection failed", GetTraceId)
    /\ ret' = "False"
    /\ pc' = "db_exit"
    /\ UNCHANGED <<stack, locals, calls, exc, console, uncaught,
                   recordsBaseException>>

\* info log "Query successful", return True
DbSuccess ==
    /\ pc = "db_roll"
    /\ rolls' = [rolls EXCEPT !.db = "pass"]
    /\ logs' = Emit("database", "INFO", "Query successful", GetTraceId)
    /\ ret' = "True"
    /\ pc' = "db_exit"
    /\ UNCHANGED <<stack, spans, locals, calls, exc, console, uncaught,
                   recordsBaseException>>

\* database_operation returns; backend_process binds db_success
DbExit ==
    /\ pc = "db_exit"
    /\ spans' = EndSpan(locals.db_span)
    /\ stack' = Pop(stack)
    /\ locals' = [locals EXCEPT !.db_success = ret]
    /\ pc' = "be_check"
    /\ UNCHANGED <<logs, ret, rolls, calls, exc, console, uncaught,
                   recordsBaseException>>

\* ---------------------------------------------------------------------
\* Unexpected faults and the external interrupt
\* ---------------------------------------------------------------------
UnexpectedMsg == "unexpected"

\* The description the span context manager gives a span that an exception
\* leaves: f"{type(exc).__name__}: {exc}"
ExcDescription(e) ==
    IF e = "Exception" THEN "Exception: " \o UnexpectedMsg ELSE "KeyboardInterrupt: "

\* An unexpected fault inside the protected region: some statement of
\* frontend_request or of its callees raises an Exception.
Raise ==
    /\ pc \in RequestPcs
    /\ exc = "none"
    /\ exc' = "Exception"
    /\ pc' = "unwind"
    /\ UNCHANGED <<stack, spans, logs, locals, ret, rolls, calls, console,
                   uncaught, recordsBaseException>>

\* The process signal: KeyboardInterrupt is raised wherever control is.
Interrupt ==
    /\ pc \notin {"start", "exited"}
    /\ exc # "KeyboardInterrupt"
    /\ exc' = "KeyboardInterrupt"
    /\ pc' = "unwind"
    /\ UNCHANGED <<stack, spans, logs, locals, ret, rolls, calls, console,
                   uncaught, recordsBaseException>>

\* The exception leaves the innermost with-block: the context manager sets
\* the span's status to ERROR (for an Exception; for a BaseException only
\* when the API records those), ends the span and detaches the context.
ExitOnException(s) ==
    [(IF exc = "Exception" \/ recordsBaseException
         THEN WithStatus(s, Status("ERROR", ExcDescription(exc)))
         ELSE s)
     EXCEPT !.ended = TRUE]

\* (variant: on an exception the context is detached but the span is not ended)
UnwindSpan_NoEnd ==
    /\ pc = "unwind"
    /\ stack # <<>>
    /\ stack' = Pop(stack)
    /\ UNCHANGED <<pc, spans, logs, locals, ret, rolls, calls, exc, console,
                   uncaught, recordsBaseException>>

UnwindSpan ==
    /\ pc = "unwind"
    /\ stack # <<>>
    /\ spans' = [spans EXCEPT ![stack[Len(stack)]] = ExitOnException(@)]
    /\ stack' = Pop(stack)
    /\ UNCHANGED <<pc, logs, locals, ret, rolls, calls, exc, console,
                   uncaught, recordsBaseException>>

\* (variant: the except clause does not match and the exception goes on)
Catch_Propagates ==
    /\ pc = "unwind"
    /\ stack = <<>>
    /\ exc = "Exception"
    /\ uncaught' = TRUE
    /\ pc' = "exited"
    /\ UNCHANGED <<stack, spans, logs, locals, ret, rolls, calls, exc,
                   console, recordsBaseException>>

\* except Exception as e:
Catch ==
    /\ pc = "unwind"
    /\ stack = <<>>
    /\ exc = "Exception"
    /\ pc' = "m_handler"
    /\ UNCHANGED <<stack, spans, logs, locals, ret, rolls, calls, exc,
                   console, uncaught, recordsBaseException>>

\* loggers["my-app"].error(f"An unexpected error occurred: {e}", trace_id "unknown")
MainHandler ==
    /\ pc = "m_handler"
    /\ logs' = Emit("my-app", "ERROR",
                    "An unexpected error occurred: " \o UnexpectedMsg, "unknown")
    /\ pc' = "m_sleep"
    /\ UNCHANGED <<stack, spans, locals, ret, rolls, calls, exc, console,
                   uncaught, recordsBaseException>>

\* (variant: the loop is left after the sleep)
MainSleep_Break ==
    /\ pc = "m_sleep"
    /\ pc' = "exited"
    /\ UNCHANGED <<stack, spans, logs, locals, ret, rolls, calls, exc,
                   console, uncaught, recordsBaseException>>

\* time.sleep(random.uniform(0.5, 1.5)), then the next iteration of while True
MainSleep ==
    /\ pc = "m_sleep"
    /\ pc' = "m_try"
    /\ UNCHANGED <<stack, spans, logs, locals, ret, rolls, calls, exc,
                   console, uncaught, recordsBaseException>>

\* KeyboardInterrupt is not an Exception: no handler in main_loop or in
\* __main__ matches it, so it leaves the module and the process ends.
Propagate ==
    /\ pc = "unwind"
    /\ stack = <<>>
    /\ exc = "KeyboardInterrupt"
    /\ uncaught' = TRUE
    /\ pc' = "exited"
    /\ UNCHANGED <<stack, spans, logs, locals, ret, rolls, calls, exc,
                   console, recordsBaseException>>

Next ==
    \/ Startup
    \/ MainCall
    \/ FeStartSpan
    \/ FeReceived
    \/ FeAuthFail
    \/ FeCallBackend
    \/ FeBackendFail
    \/ FeSuccess
    \/ FeExit
    \/ BeStartSpan
    \/ BeCacheFail
    \/ BeCachePass
    \/ BeCallDatabase
    \/ BeDbFail
    \/ BeSuccess
    \/ BeExit
    \/ DbStartSpan
    \/ DbSleep
    \/ DbFail
    \/ DbSuccess
    \/ DbExit
    \/ Raise
    \/ Interrupt
    \/ UnwindSpan
    \/ Catch
    \/ MainHandler
    \/ MainSleep
    \/ Propagate

Spec == Init /\ [][Next]_vars

\* The steps the program takes by itself: every statement of the three
\* tier functions and of main_loop, the exits of the with-blocks (normal or
\* on an exception) and the except clause.
DriverStep ==
    \/ Startup
    \/ MainCall
    \/ FeStartSpan
    \/ FeReceived
    \/ FeAuthFail
    \/ FeCallBackend
    \/ FeBackendFail
    \/ FeSuccess
    \/ FeExit
    \/ BeStartSpan
    \/ BeCacheFail
    \/ BeCachePass
    \/ BeCallDatabase
    \/ BeDbFail
    \/ BeSuccess
    \/ BeExit
    \/ DbStartSpan
    \/ DbSleep
    \/ DbFail
    \/ DbSuccess
    \/ DbExit
    \/ UnwindSpan
    \/ Catch
    \/ MainHandler
    \/ MainSleep

\* The program with no external interrupt: its own steps, which are taken
\* eventually since every sleep is finite, and unexpected faults, which may
\* or may not occur.
LiveNext == DriverStep \/ Raise

LiveSpec == Init /\ [][LiveNext]_vars /\ WF_vars(DriverStep)

TypeOK ==
    /\ pc \in RequestPcs \cup {"start", "m_try", "m_handler", "m_sleep", "unwind", "exited"}
    /\ exc \in {"none", "Exception", "KeyboardInterrupt"}
    /\ Len(spans) <= 3
    /\ \A i \in 1..Len(stack) : stack[i] \in 1..Len(spans)

\* ---------------------------------------------------------------------
\* Properties
\* ---------------------------------------------------------------------
\* frontend_request has returned to main_loop without an exception
Returned == pc = "m_sleep" /\ exc = "none"

\* backend_process has returned to frontend_request without an exception
BackendReturned == locals.backend_success # "unbound"

\* database_operation has returned to backend_process without an exception
DatabaseReturned == locals.db_success # "unbound"

RootSpans == {i \in DOMAIN spans : spans[i].parent = InvalidContext}

SpansOf(service) == {i \in DOMAIN spans : spans[i].service = service}

LogsOf(service) == {i \in DOMAIN logs : logs[i].service = service}

OpenSpans == {i \in DOMAIN spans : ~spans[i].ended}

\* C1: every invocation of frontend_request that completes without an
\* exception has opened and closed exactly one root span, named
\* "/api/users", and that span closes with status OK or ERROR with a
\* reason, never UNSET: the status is already set when the function is
\* about to leave the with-block, and is still so after the span has ended.
C1_RootSpanClosedWithStatus ==
    /\ (pc = "fe_exit" /\ exc = "none") =>
          /\ RootSpans = {locals.parent_span}
          /\ spans[locals.parent_span].status.code \in {"OK", "ERROR"}
    /\ Returned =>
          /\ RootSpans = {locals.parent_span}
          /\ Cardinality(SpansOf("frontend")) = 1
          /\ LET root == spans[locals.parent_span] IN
                /\ root.name = "/api/users"
                /\ root.ended
                /\ root.status.code \in {"OK", "ERROR"}
                /\ root.status.code = "ERROR" => root.status.description # ""

C1_Witness ==
    /\ Returned
    /\ spans[locals.parent_span].ended
    /\ spans[locals.parent_span].status.code = "OK"

\* C2: in a request whose auth roll did not fire and that completes
\* without an exception, backend_process was invoked and returned, and the
\* Frontend span closed with ERROR if it returned failure and with OK if it
\* returned success; once the auth roll has fired, backend_process is not
\* invoked in that request.
C2_FrontendFollowsBackend ==
    /\ (Returned /\ rolls.auth = "pass") =>
          /\ calls.backend = 1
          /\ locals.backend_success \in {"True", "False"}
          /\ spans[locals.parent_span].ended
          /\ locals.backend_success = "False" =>
                spans[locals.parent_span].status.code = "ERROR"
          /\ locals.backend_success = "True" =>
                spans[locals.parent_span].status.code = "OK"
    /\ rolls.auth = "fire" => (calls.backend = 0 /\ ~BackendReturned)

C2_Witness ==
    /\ Returned
    /\ rolls.auth = "pass"
    /\ locals.backend_success = "False"
    /\ spans[locals.parent_span].status.code = "ERROR"

\* C3: database_operation returns failure to backend_process only when the
\* cache roll did not fire, and when backend_process then returns, its
\* span has closed with ERROR and reason exactly "Downstream DB error",
\* which is not the Database span's reason "DB connection failed"; likewise
\* the Frontend span's reason for a Backend failure ("Backend error") is
\* never the reason of the Backend span.
C3_DownstreamReasonRelabelled ==
    /\ DatabaseReturned => rolls.cache = "pass"
    /\ (BackendReturned /\ locals.db_success = "False") =>
          LET be == spans[locals.backend_span]
              db == spans[locals.db_span]
          IN  /\ be.ended
              /\ be.status = Status("ERROR", "Downstream DB error")
              /\ db.status = Status("ERROR", "DB connection failed")
              /\ be.status.description # db.status.description
    /\ (Returned /\ locals.backend_success = "False") =>
          LET fe == spans[locals.parent_span]
              be == spans[locals.backend_span]
          IN  /\ fe.status = Status("ERROR", "Backend error")
              /\ be.status.code = "ERROR"
              /\ fe.status.description # be.status.description

C3_Witness ==
    /\ Returned
    /\ locals.db_success = "False"
    /\ spans[locals.backend_span].status.description = "Downstream DB error"

\* C4: every log record of the frontend, backend and database tiers
\* carries the formatted trace id of the root (Frontend) span of the request
\* in progress, which every span of the request shares; every record of the
\* driver's exception handler (logger "my-app") carries "unknown".
C4_LogsCarryRootTraceId ==
    /\ \A i \in DOMAIN spans :
          spans[i].trace_id = spans[locals.parent_span].trace_id
    /\ \A i \in DOMAIN logs :
          IF logs[i].service = "my-app"
          THEN logs[i].trace_id = "unknown"
          ELSE /\ locals.parent_span \in DOMAIN spans
               /\ logs[i].trace_id =
                     Format032x(spans[locals.parent_span].trace_id)
               /\ Len(logs[i].trace_id) = 32

C4_Witness ==
    /\ LogsOf("frontend") # {}
    /\ LogsOf("backend") # {}
    /\ LogsOf("database") # {}
    /\ LogsOf("my-app") # {}

\* C5: an Exception that escapes frontend_request is caught by main_loop's
\* except clause; the handler emits exactly one record, on logger "my-app",
\* at level ERROR with trace id "unknown"; control then goes to the sleep
\* and from there to the next call of frontend_request; the process ends
\* only with a KeyboardInterrupt in flight, whatever the request did.
C5_HandlerLogs ==
    /\ Cardinality(LogsOf("my-app")) <= 1
    /\ LogsOf("my-app") # {} => exc # "none"
    /\ (exc = "Exception" /\ pc \in {"m_sleep", "m_try"}) =>
          /\ Cardinality(LogsOf("my-app")) = 1
          /\ \A i \in LogsOf("my-app") :
                /\ logs[i].level = "ERROR"
                /\ logs[i].trace_id = "unknown"
                /\ i = Len(logs)

C5_LoopGoesOn ==
    /\ pc = "exited" => exc = "KeyboardInterrupt"
    /\ (pc = "unwind" /\ stack = <<>> /\ exc = "Exception") => ENABLED Catch
    /\ pc = "m_handler" => ENABLED MainHandler
    /\ pc = "m_sleep" => ENABLED MainSleep
    /\ pc = "m_try" => ENABLED MainCall

C5_DriverSteps ==
    (pc' # pc /\ exc' # "KeyboardInterrupt") =>
        /\ (pc = "unwind" /\ exc = "Exception") => pc' = "m_handler"
        /\ pc = "m_handler" =>
              (pc' = "m_sleep" /\ Len(logs') = Len(logs) + 1)
        /\ pc = "m_sleep" => pc' = "m_try"
        /\ pc = "m_try" => pc' = "fe_span"

C5_DriverSurvivesRequestFailure ==
    /\ [](C5_HandlerLogs /\ C5_LoopGoesOn)
    /\ [][C5_DriverSteps]_vars

C5_Witness ==
    /\ pc = "m_try"
    /\ exc = "Exception"
    /\ Cardinality(LogsOf("my-app")) = 1
    /\ LogsOf("frontend") # {}

\* C6: the process ends only on an external interrupt, and an interrupt is
\* handled: the loop is left cleanly (no exception leaves the module) and a
\* shutdown notice is printed after the three startup lines.
C6_InterruptHandledCleanly ==
    pc = "exited" =>
        /\ exc = "KeyboardInterrupt"
        /\ ~uncaught
        /\ Len(console) > 3

\* C7: requests are strictly sequential: the spans that are open are
\* exactly those of the context stack, at most one per tier and so at most
\* one root; whenever control is in main_loop outside frontend_request (in
\* particular when the next request is about to open its root span) the
\* context is empty and every span started so far has ended; and within one
\* iteration frontend_request runs once.
C7_OneRequestInFlight ==
    /\ OpenSpans = {stack[k] : k \in DOMAIN stack}
    /\ \A k \in DOMAIN stack : stack[k] = k
    /\ Cardinality(OpenSpans \cap RootSpans) <= 1
    /\ \A svc \in {"frontend", "backend", "database"} :
          Cardinality(SpansOf(svc)) <= 1
    /\ calls.frontend <= 1
    /\ pc \in {"m_try", "m_sleep", "m_handler", "exited"} =>
          (stack = <<>> /\ OpenSpans = {})
    /\ pc = "fe_recv" => (Len(spans) = 1 /\ RootSpans = {1})

C7_Witness ==
    /\ pc = "m_try"
    /\ Len(spans) = 3
    /\ OpenSpans = {}
    /\ exc = "none"

\* C8: spans nest top-down: the Frontend span has no parent, a Backend
\* span has the Frontend span of the request as parent, a Database span has
\* the Backend span as parent, and a span is open only while its parent is
\* open (so none is opened under a closed parent).
ParentOf(i) ==
    IF spans[i].service = "backend" THEN locals.parent_span
    ELSE IF spans[i].service = "database" THEN locals.backend_span
    ELSE 0

C8_SpansNestTopDown ==
    \A i \in DOMAIN spans :
        IF spans[i].service = "frontend"
        THEN /\ i = locals.parent_span
             /\ spans[i].parent = InvalidContext
             /\ spans[i].kind = "SERVER"
        ELSE /\ ParentOf(i) \in 1..(i - 1)
             /\ spans[ParentOf(i)].service =
                   (IF spans[i].service = "backend" THEN "frontend" ELSE "backend")
             /\ spans[i].parent = Context(spans[ParentOf(i)])
             /\ spans[i].parent # InvalidContext
             /\ ~spans[i].ended => ~spans[ParentOf(i)].ended

C8_Witness ==
    /\ Len(spans) = 3
    /\ Len(stack) = 3
    /\ spans[3].service = "database"
    /\ spans[3].parent = Context(spans[2])

\* C9: once the auth roll has fired, backend_process and
\* database_operation are not invoked, no Backend or Database span is
\* started and no Backend or Database record is logged in that request, and
\* when frontend_request returns its span has closed with status
\* ERROR "Invalid user session".
C9_AuthFaultShortCircuits ==
    rolls.auth = "fire" =>
        /\ calls.backend = 0
        /\ calls.database = 0
        /\ SpansOf("backend") = {}
        /\ SpansOf("database") = {}
        /\ LogsOf("backend") = {}
        /\ LogsOf("database") = {}
        /\ Returned =>
              /\ spans[locals.parent_span].ended
              /\ spans[locals.parent_span].status =
                    Status("ERROR", "Invalid user session")

C9_Witness ==
    /\ Returned
    /\ rolls.auth = "fire"
    /\ Len(spans) = 1
    /\ spans[1].ended

\* C10: once the cache roll has fired, database_operation is not invoked
\* (no Database span, no Database record, no backend sleep), and when
\* backend_process returns its span has closed with status
\* ERROR "Cache service unavailable" and the value returned is failure.
C10_CacheFaultFailsLocally ==
    rolls.cache = "fire" =>
        /\ calls.database = 0
        /\ SpansOf("database") = {}
        /\ LogsOf("database") = {}
        /\ pc \notin {"be_sleep", "be_check", "db_span", "db_sleep", "db_roll", "db_exit"}
        /\ BackendReturned =>
              /\ locals.backend_success = "False"
              /\ spans[locals.backend_span].ended
              /\ spans[locals.backend_span].status =
                    Status("ERROR", "Cache service unavailable")

C10_Witness ==
    /\ BackendReturned
    /\ rolls.cache = "fire"
    /\ spans[locals.backend_span].ended

InfoLogsOf(service) == {i \in LogsOf(service) : logs[i].level = "INFO"}

ErrorLogsOf(service) == {i \in LogsOf(service) : logs[i].level = "ERROR"}

Tiers == {"frontend", "backend", "database"}

AllInfoLogs == {i \in DOMAIN logs : logs[i].level = "INFO"}

AllErrorLogs == {i \in DOMAIN logs : logs[i].level = "ERROR"}

\* all three rolls were made and none fired
NoFaultFired == rolls = [auth |-> "pass", cache |-> "pass", db |-> "pass"]

\* the auth and cache rolls passed and the DB roll fired
OnlyDbFaultFired == rolls = [auth |-> "pass", cache |-> "pass", db |-> "fire"]

ThreeSpansClosedOkOrUnset ==
    /\ Len(spans) = 3
    /\ \A i \in DOMAIN spans :
          spans[i].ended /\ spans[i].status.code \in {"OK", "UNSET"}

\* C11 (as stated): in a request where no fault fires, the Frontend span
\* closes OK, exactly 3 INFO records are logged, one per tier, no ERROR
\* record is logged, and exactly 3 spans are closed, each OK or UNSET.
C11_NoFaultThreeInfoLogs ==
    (Returned /\ NoFaultFired) =>
        /\ spans[locals.parent_span].status.code = "OK"
        /\ Cardinality(AllInfoLogs) = 3
        /\ \A t \in Tiers : Cardinality(InfoLogsOf(t)) = 1
        /\ AllErrorLogs = {}
        /\ ThreeSpansClosedOkOrUnset

\* C11 (amended): in a request where no fault fires, the Frontend span
\* closes OK, exactly 4 INFO records are logged (two by the frontend:
\* "Received request for /api/users" and "Transaction successful"; one by the
\* backend; one by the database), no ERROR record is logged, and exactly 3
\* spans are closed, each OK or UNSET.
C11_NoFaultFourInfoLogs ==
    (Returned /\ NoFaultFired) =>
        /\ spans[locals.parent_span].status.code = "OK"
        /\ Len(logs) = 4
        /\ Cardinality(AllInfoLogs) = 4
        /\ Cardinality(InfoLogsOf("frontend")) = 2
        /\ Cardinality(InfoLogsOf("backend")) = 1
        /\ Cardinality(InfoLogsOf("database")) = 1
        /\ logs[1].message = "Received request for /api/users"
        /\ logs[4].message = "Transaction successful"
        /\ AllErrorLogs = {}
        /\ ThreeSpansClosedOkOrUnset

C11_Witness ==
    /\ Returned
    /\ NoFaultFired
    /\ Len(logs) = 4
    /\ Len(spans) = 3

\* C12: in a request where only the DB fault fires, the Database span
\* closes with ERROR "DB connection failed", the Backend span with
\* ERROR "Downstream DB error", the Frontend span with ERROR, and exactly one
\* ERROR record is logged by each of the database, backend and frontend.
C12_OnlyDbFault ==
    (Returned /\ OnlyDbFaultFired) =>
        /\ Len(spans) = 3
        /\ \A i \in DOMAIN spans : spans[i].ended
        /\ spans[locals.db_span].status = Status("ERROR", "DB connection failed")
        /\ spans[locals.backend_span].status = Status("ERROR", "Downstream DB error")
        /\ spans[locals.parent_span].status.code = "ERROR"
        /\ \A t \in Tiers : Cardinality(ErrorLogsOf(t)) = 1
        /\ Cardinality(AllErrorLogs) = 3

C12_Witness ==
    /\ Returned
    /\ OnlyDbFaultFired
    /\ Cardinality(AllErrorLogs) = 3

\* the Frontend's records other than the one logged on entry
TerminalFrontendLogs ==
    {i \in LogsOf("frontend") : logs[i].message # "Received request for /api/users"}

LevelAgrees(level, code) ==
    \/ level = "ERROR" /\ code = "ERROR"
    \/ level = "INFO" /\ code = "OK"

\* the four ways a request ends: auth fault, cache fault, DB fault, success
TerminalPaths ==
    {[auth |-> "fire", cache |-> "unrolled", db |-> "unrolled"],
     [auth |-> "pass", cache |-> "fire", db |-> "unrolled"],
     [auth |-> "pass", cache |-> "pass", db |-> "fire"],
     [auth |-> "pass", cache |-> "pass", db |-> "pass"]}

C13_OnePairAtDone ==
    Returned =>
        /\ rolls \in TerminalPaths
        /\ Cardinality(TerminalFrontendLogs) = 1
        /\ Len(logs) \in TerminalFrontendLogs
        /\ spans[locals.parent_span].status.code \in {"OK", "ERROR"}
        /\ LevelAgrees(logs[Len(logs)].level, spans[locals.parent_span].status.code)

\* this step sets the status of the root span
RootStatusSet ==
    /\ locals.parent_span \in DOMAIN spans
    /\ locals.parent_span \in DOMAIN spans'
    /\ spans'[locals.parent_span].status # spans[locals.parent_span].status

\* this step logs a terminal Frontend record
TerminalFrontendLogged ==
    /\ Len(logs') = Len(logs) + 1
    /\ logs'[Len(logs')].service = "frontend"
    /\ logs'[Len(logs')].message # "Received request for /api/users"

C13_PairedStep ==
    exc' = "none" =>
        /\ RootStatusSet <=> TerminalFrontendLogged
        /\ RootStatusSet =>
              /\ spans[locals.parent_span].status = Unset
              /\ TerminalFrontendLogs = {}
              /\ LevelAgrees(logs'[Len(logs')].level,
                             spans'[locals.parent_span].status.code)
              /\ pc' = "fe_exit"

\* C13: a request that reaches Done (frontend_request returns, on any of
\* the four terminal paths) has set the status of its root span exactly
\* once, in the same step that logged its one terminal Frontend record, and
\* the record's level agrees with the status (ERROR with ERROR, INFO with OK).
C13_OneStatusLogPair == [][C13_PairedStep]_vars /\ []C13_OnePairAtDone

C13_Witness ==
    /\ Returned
    /\ rolls.cache = "fire"
    /\ Cardinality(TerminalFrontendLogs) = 1
    /\ logs[Len(logs)].level = "ERROR"

Booleans == {"True", "False"}

\* the value v is a boolean that is failure exactly when span i is ERROR
FailureIffError(v, i) ==
    /\ v \in Booleans
    /\ v = "False" <=> spans[i].status.code = "ERROR"

DatabaseReturnsStatus ==
    DatabaseReturned => FailureIffError(locals.db_success, locals.db_span)

BackendReturnsStatus ==
    BackendReturned => FailureIffError(locals.backend_success, locals.backend_span)

\* a step that rolls a fault neither raises nor starts unwinding
C14_FaultStepDoesNotRaise ==
    (rolls' # rolls) => (exc' = "none" /\ pc' # "unwind")

\* C14 (as stated, the returned values): each of the three tier
\* operations returns to its caller a boolean that is failure exactly when
\* its own span was marked ERROR.
C14_EveryTierReturnsBoolean ==
    /\ DatabaseReturnsStatus
    /\ BackendReturnsStatus
    /\ Returned => FailureIffError(ret, locals.parent_span)

\* C14 (amended): database_operation and backend_process return a boolean
\* that is failure exactly when their own span was marked ERROR;
\* frontend_request turns a Backend failure into its own span status ERROR
\* but returns None on every path; and no step that rolls a synthetic fault
\* raises an exception.
C14_TiersConvertFailure ==
    /\ [](/\ DatabaseReturnsStatus
          /\ BackendReturnsStatus
          /\ Returned =>
                /\ ret = "None"
                /\ (BackendReturned /\ locals.backend_success = "False") =>
                      spans[locals.parent_span].status.code = "ERROR")
    /\ [][C14_FaultStepDoesNotRaise]_vars

C14_Witness ==
    /\ Returned
    /\ ret = "None"
    /\ locals.backend_success = "False"
    /\ locals.db_success = "False"
    /\ spans[locals.parent_span].status.code = "ERROR"

\* some tier has reported a failure in this request
AnyFaultFired == \E t \in {"auth", "cache", "db"} : rolls[t] = "fire"

C15_AtMostOneCall ==
    /\ calls.frontend <= 1
    /\ calls.backend <= 1
    /\ calls.database <= 1
    /\ \A t \in Tiers : Cardinality(SpansOf(t)) <= calls[t]
    /\ Cardinality({t \in {"auth", "cache", "db"} : rolls[t] = "fire"}) <= 1

\* after a failure the next invocation of a tier is main_loop's next call
C15_NoCallAfterFailure ==
    (AnyFaultFired /\ calls' # calls) =>
        (pc = "m_try" /\ pc' = "fe_span" /\ calls' = [NoCalls EXCEPT !.frontend = 1])

\* C15: nothing is retried: within one request backend_process and
\* database_operation are each invoked at most once, and once a tier has
\* reported failure no tier operation is invoked until main_loop starts the
\* next request.
C15_NothingRetried == []C15_AtMostOneCall /\ [][C15_NoCallAfterFailure]_vars

C15_Witness ==
    /\ Returned
    /\ rolls.db = "fire"
    /\ calls = [frontend |-> 1, backend |-> 1, database |-> 1]

\* the request is over: control is at main_loop's sleep, the context is
\* empty and every span of the request has ended
RequestDone == pc = "m_sleep" /\ stack = <<>> /\ OpenSpans = {}

\* C16: with no external interrupt and the program's steps taken fairly,
\* every request that is started eventually is done with all its spans
\* closed, after every request another one is eventually started, and so
\* requests are started infinitely often.
C16_RunsIndefinitely ==
    /\ (pc = "fe_span") ~> RequestDone
    /\ RequestDone ~> (pc = "fe_span")
    /\ []<>(pc = "fe_span")
    /\ [](pc # "exited")

C16_Witness ==
    /\ pc = "m_try"
    /\ rolls.auth = "fire"
    /\ Len(spans) = 1
    /\ OpenSpans = {}

Fired(t) == rolls[t] = "fire"

LogTriples ==
    [i \in DOMAIN logs |-> <<logs[i].service, logs[i].level, logs[i].message>>]

SpanStatuses ==
    [i \in DOMAIN spans |-> <<spans[i].service, spans[i].status>>]

Received == <<"frontend", "INFO", "Received request for /api/users">>

\* what a request with rolls r ends with: its span statuses and log triples
OutcomeOf(r) ==
    IF r.auth = "fire" THEN
        [spans |-> <<<<"frontend", Status("ERROR", "Invalid user session")>>>>,
         logs  |-> <<Received,
                     <<"frontend", "ERROR", "Invalid user session token">>>>]
    ELSE IF r.cache = "fire" THEN
        [spans |-> <<<<"frontend", Status("ERROR", "Backend error")>>,
                     <<"backend", Status("ERROR", "Cache service unavailable")>>>>,
         logs  |-> <<Received,
                     <<"backend", "ERROR", "Cache service unavailable">>,
                     <<"frontend", "ERROR",
                       "Request to /api/users failed due to backend error">>>>]
    ELSE IF r.db = "fire" THEN
        [spans |-> <<<<"frontend", Status("ERROR", "Backend error")>>,
                     <<"backend", Status("ERROR", "Downstream DB error")>>,
                     <<"database", Status("ERROR", "DB connection failed")>>>>,
         logs  |-> <<Received,
                     <<"database", "ERROR", "DB connection failed">>,
                     <<"backend", "ERROR", "Backend failed due to downstream DB error">>,
                     <<"frontend", "ERROR",
                       "Request to /api/users failed due to backend error">>>>]
    ELSE
        [spans |-> <<<<"frontend", Status("OK", "")>>,
                     <<"backend", Unset>>,
                     <<"database", Unset>>>>,
         logs  |-> <<Received,
                     <<"database", "INFO", "Query successful">>,
                     <<"backend", "INFO", "Backend processing complete">>,
                     <<"frontend", "INFO", "Transaction successful">>>>]

\* C17: when frontend_request returns, the root span's status is a
\* function of the three rolls: OK iff no fault fired, ERROR "Invalid user
\* session" iff the auth fault fired, ERROR "Backend error" iff the auth
\* fault did not fire and the cache fault fired or (it did not and) the DB
\* fault fired; and the span statuses and the sequence of log (service,
\* level, message) triples of the request are determined by the rolls.
C17_OutcomeIsFunctionOfRolls ==
    Returned =>
        LET root == spans[locals.parent_span].status IN
        /\ root = Status("OK", "") <=> ~(Fired("auth") \/ Fired("cache") \/ Fired("db"))
        /\ root = Status("ERROR", "Invalid user session") <=> Fired("auth")
        /\ root = Status("ERROR", "Backend error") <=>
              (~Fired("auth") /\
                 (Fired("cache") \/ (rolls.cache = "pass" /\ Fired("db"))))
        /\ SpanStatuses = OutcomeOf(rolls).spans
        /\ LogTriples = OutcomeOf(rolls).logs

C17_Witness ==
    /\ Returned
    /\ Fired("db")
    /\ spans[locals.parent_span].status = Status("ERROR", "Backend error")
    /\ Len(logs) = 4

IsTerminalFrontendLog(l) ==
    l.service = "frontend" /\ l.message # "Received request for /api/users"

C18_OrderedSoFar ==
    \* the entry record is the first record a tier logs, and is there before
    \* backend_process is entered
    /\ (\E i \in DOMAIN logs : logs[i].service \in Tiers) => LogTriples[1] = Received
    /\ (calls.backend > 0 \/ SpansOf("backend") # {}) =>
          (logs # <<>> /\ LogTriples[1] = Received)
    \* spans are started top-down and closed bottom-up
    /\ \A i \in DOMAIN spans :
          spans[i].service = <<"frontend", "backend", "database">>[i]
    /\ \A i, j \in DOMAIN spans : (i < j /\ spans[i].ended) => spans[j].ended
    \* database record, then backend record, then the frontend's terminal record
    /\ \A i, j \in DOMAIN logs :
          i < j =>
             /\ ~(logs[i].service = "backend" /\ logs[j].service = "database")
             /\ ~(IsTerminalFrontendLog(logs[i]) /\
                    logs[j].service \in {"backend", "database"})
    /\ Returned =>
          /\ IsTerminalFrontendLog(logs[Len(logs)])
          /\ SpansOf("backend") # {} => LogsOf("backend") # {}
          /\ SpansOf("database") # {} => LogsOf("database") # {}

\* a step closes at most one span
C18_OneCloseAtATime ==
    Len(spans') >= Len(spans) =>
        Cardinality({i \in DOMAIN spans : ~spans[i].ended /\ spans'[i].ended}) <= 1

\* C18: within a request the Frontend's "Received request" record is the
\* first record and precedes the opening of the Backend span; spans close
\* one at a time innermost first (Database before Backend before Frontend);
\* and the Database's record precedes the Backend's record, which precedes
\* the Frontend's terminal record.
C18_BottomUpOrder == []C18_OrderedSoFar /\ [][C18_OneCloseAtATime]_vars

C18_Witness ==
    /\ Returned
    /\ Len(logs) = 4
    /\ logs[2].service = "database"
    /\ logs[3].service = "backend"
    /\ IsTerminalFrontendLog(logs[4])

\* C19: whenever control is in main_loop outside frontend_request (the
\* except handler, the sleep, the top of the loop) or the process has ended,
\* the current-span context is empty and every span the request started
\* has ended, also when an exception was raised inside a tier at any
\* depth; the handler's record is logged only after that, to an empty context.
C19_NoSpanLeaks ==
    /\ pc \in {"m_handler", "m_sleep", "m_try", "exited"} =>
          /\ stack = <<>>
          /\ \A i \in DOMAIN spans : spans[i].ended
          /\ CurrentContext = InvalidContext
    /\ LogsOf("my-app") # {} =>
          /\ stack = <<>>
          /\ OpenSpans = {}
    /\ pc = "m_handler" =>
          /\ exc = "Exception"
          /\ LogsOf("my-app") = {}

C19_Witness ==
    /\ pc = "m_handler"
    /\ Len(spans) = 3
    /\ OpenSpans = {}
    /\ spans[3].status = Status("ERROR", ExcDescription("Exception"))

====
